---- MODULE Spec2Model ----
(***************************************************************************)
(* Model of the bank-statement line parser of spendly:                     *)
(*   scripts/extract_transactions.py  (the "script" parser and drivers)    *)
(*   core/data_preprocessor.py        (the "core" DataProcessor)           *)
(* A string is a sequence of one-character strings, so that strip, split,  *)
(* startswith, isdigit, isalpha, the regular expressions and the date      *)
(* parsing are computed character by character, as the code computes them. *)
(* Python's None is the empty sequence NoneVal: no token produced by       *)
(* str.split() and no resolved year is ever empty, and `if extracted_year` *)
(* tests truthiness, which the empty string fails as None does.            *)
(***************************************************************************)
EXTENDS Integers, Sequences, FiniteSets, TLC

NoneVal == << >>

Digits == {"0", "1", "2", "3", "4", "5", "6", "7", "8", "9"}

DigitSeq == <<"0", "1", "2", "3", "4", "5", "6", "7", "8", "9">>

UpperLetters == {"A", "B", "C", "D", "E", "F", "G", "H", "I", "J", "K", "L", "M",
                 "N", "O", "P", "Q", "R", "S", "T", "U", "V", "W", "X", "Y", "Z"}

LowerLetters == {"a", "b", "c", "d", "e", "f", "g", "h", "i", "j", "k", "l", "m",
                 "n", "o", "p", "q", "r", "s", "t", "u", "v", "w", "x", "y", "z"}

Letters == UpperLetters \cup LowerLetters

\* \w of the re module, on the characters the model uses
WordChars == Letters \cup Digits \cup {"_"}

\* the characters str.strip() and str.split() treat as whitespace
Whitespace == {" ", "\t"}

DigitVal(c) == (CHOOSE i \in 1..10 : DigitSeq[i] = c) - 1

DigitChar(n) == DigitSeq[n + 1]

\* s[i:j] of Python with 1-based inclusive bounds; empty when i > j
Slice(s, i, j) == IF i > j THEN << >> ELSE SubSeq(s, i, j)

\* str.startswith
StartsWith(s, p) == Len(s) >= Len(p) /\ SubSeq(s, 1, Len(p)) = p

RECURSIVE LStrip(_)
LStrip(s) == IF s # << >> /\ Head(s) \in Whitespace THEN LStrip(Tail(s)) ELSE s

RECURSIVE RStrip(_)
RStrip(s) ==
  IF s # << >> /\ s[Len(s)] \in Whitespace THEN RStrip(SubSeq(s, 1, Len(s) - 1)) ELSE s

\* str.strip()
Strip(s) == RStrip(LStrip(s))

\* str.split(): the maximal runs of non-whitespace characters, in order
RECURSIVE SplitFrom(_, _, _)
SplitFrom(s, cur, acc) ==
  IF s = << >> THEN (IF cur = << >> THEN acc ELSE Append(acc, cur))
  ELSE IF Head(s) \in Whitespace
       THEN SplitFrom(Tail(s), << >>, IF cur = << >> THEN acc ELSE Append(acc, cur))
       ELSE SplitFrom(Tail(s), Append(cur, Head(s)), acc)

Split(s) == SplitFrom(s, << >>, << >>)

\* sep.join(parts)
RECURSIVE Join(_, _)
Join(parts, sep) ==
  IF parts = << >> THEN << >>
  ELSE IF Len(parts) = 1 THEN parts[1]
  ELSE parts[1] \o sep \o Join(Tail(parts), sep)

AllIn(s, chars) == \A i \in 1..Len(s) : s[i] \in chars

\* str.isdigit() and str.isalpha(): non-empty and every character of the class
IsDigit(s) == s # << >> /\ AllIn(s, Digits)

IsAlpha(s) == s # << >> /\ AllIn(s, Letters)

\* the pattern with any number of decimals: r'^\d+(\.\d+)?$'
MatchesNumericAnyDecimals(part) ==
  \/ IsDigit(part)
  \/ \E k \in 2..Len(part) :
       /\ part[k] = "."
       /\ IsDigit(SubSeq(part, 1, k - 1))
       /\ IsDigit(SubSeq(part, k + 1, Len(part)))

\* re.match(r'^\d+(\.\d{1,2})?$', part)
MatchesNumeric(part) ==
  \/ IsDigit(part)
  \/ \E k \in 2..Len(part) :
       /\ part[k] = "."
       /\ IsDigit(SubSeq(part, 1, k - 1))
       /\ Len(part) - k \in {1, 2}
       /\ IsDigit(SubSeq(part, k + 1, Len(part)))

\* the pattern without its word boundaries: r'(20\d{2})'
YearMatchAtUnbounded(line, i) ==
  /\ i + 3 <= Len(line)
  /\ line[i] = "2" /\ line[i + 1] = "0"
  /\ line[i + 2] \in Digits /\ line[i + 3] \in Digits

\* the positions where r'\b(20\d{2})\b' matches in line
YearMatchAt(line, i) ==
  /\ i + 3 <= Len(line)
  /\ line[i] = "2" /\ line[i + 1] = "0"
  /\ line[i + 2] \in Digits /\ line[i + 3] \in Digits
  /\ (i = 1 \/ line[i - 1] \notin WordChars)
  /\ (i + 3 = Len(line) \/ line[i + 4] \notin WordChars)

YearPositions(line) == {i \in 1..Len(line) : YearMatchAt(line, i)}

\* re.search(r'\b(20\d{2})\b', line): group(1) of the leftmost match, or None
SearchYear(line) ==
  IF YearPositions(line) = {} THEN NoneVal
  ELSE LET i == CHOOSE p \in YearPositions(line) : \A q \in YearPositions(line) : p <= q
       IN  SubSeq(line, i, i + 3)

\* extract_year(lines): the match of the first line that has one, or None
RECURSIVE extract_year(_)
extract_year(lines) ==
  IF lines = << >> THEN NoneVal
  ELSE IF SearchYear(Head(lines)) # NoneVal THEN SearchYear(Head(lines))
  ELSE extract_year(Tail(lines))

\* months of extract_transactions_from_page / extract_transactions
months == << <<"J","a","n">>, <<"F","e","b">>, <<"M","a","r">>, <<"A","p","r">>,
             <<"M","a","y">>, <<"J","u","n">>, <<"J","u","l">>, <<"A","u","g">>,
             <<"S","e","p">>, <<"O","c","t">>, <<"N","o","v">>, <<"D","e","c">> >>

\* the first token compared with the abbreviations, instead of the line's prefix
StartsWithMonthToken(line) ==
  Split(line) # << >> /\ \E m \in 1..Len(months) : Split(line)[1] = months[m]

\* any(line.startswith(month) for month in months)
StartsWithMonth(line) == \E m \in 1..Len(months) : StartsWith(line, months[m])

\* DEPOSIT_TRIGS
DEPOSIT_TRIGS == << <<"D","e","p","o","s","i","t">>,
                    <<"M","B","-","T","r","a","n","s","f","e","r","f","r","o","m">> >>

\* tag in parts
Contains(parts, tag) == \E i \in 1..Len(parts) : parts[i] = tag

\* any(tag in parts for tag in DEPOSIT_TRIGS)
HasDepositTrig(parts) == \E t \in 1..Len(DEPOSIT_TRIGS) : Contains(parts, DEPOSIT_TRIGS[t])

RECURSIVE NumVal(_)
NumVal(ds) == IF ds = << >> THEN 0 ELSE 10 * NumVal(SubSeq(ds, 1, Len(ds) - 1)) + DigitVal(ds[Len(ds)])

\* zero-padded decimal of n on w characters (%d, %m and %Y of strftime)
RECURSIVE Pad(_, _)
Pad(n, w) == IF w = 0 THEN << >> ELSE Append(Pad(n \div 10, w - 1), DigitChar(n % 10))

IsLeap(y) == (y % 4 = 0 /\ y % 100 # 0) \/ y % 400 = 0

DaysInMonth(m, y) ==
  IF m = 2 THEN (IF IsLeap(y) THEN 29 ELSE 28)
  ELSE IF m \in {4, 6, 9, 11} THEN 30 ELSE 31

NoDate == [ok |-> FALSE, month |-> 0, day |-> 0, year |-> 0]

\* %d read as exactly two digits
ParseDateTwoDigitDay(date) ==
  IF ~StartsWithMonth(date) THEN NoDate
  ELSE LET m    == CHOOSE k \in 1..Len(months) : StartsWith(date, months[k])
           rest == Slice(date, 4, Len(date))
       IN  IF /\ Len(rest) = 6
              /\ IsDigit(rest)
              /\ NumVal(SubSeq(rest, 1, 2)) \in 1..DaysInMonth(m, NumVal(SubSeq(rest, 3, 6)))
           THEN [ok |-> TRUE, month |-> m, day |-> NumVal(SubSeq(rest, 1, 2)),
                 year |-> NumVal(SubSeq(rest, 3, 6))]
           ELSE NoDate

\* pd.to_datetime(date, format='%b%d%Y'): %b is a month abbreviation, %d is
\* 3[0-1]|[1-2]\d|0[1-9]|[1-9], %Y is four digits, and the whole string must
\* match, so the day is what lies between the abbreviation and the last four
\* characters; the matched fields must then form a calendar date. ok = FALSE
\* is the ValueError. (%b ignores case in strptime; the only caller passes a
\* token that begins with an entry of months verbatim.)
ParseDate(date) ==
  IF ~StartsWithMonth(date) THEN NoDate
  ELSE LET m    == CHOOSE k \in 1..Len(months) : StartsWith(date, months[k])
           rest == Slice(date, 4, Len(date))
           dd   == Slice(rest, 1, Len(rest) - 4)
           yyyy == Slice(rest, Len(rest) - 3, Len(rest))
       IN  IF /\ Len(rest) \in {5, 6}
              /\ IsDigit(rest)
              /\ NumVal(dd) \in 1..31
              /\ NumVal(yyyy) >= 1
              /\ NumVal(dd) <= DaysInMonth(m, NumVal(yyyy))
           THEN [ok |-> TRUE, month |-> m, day |-> NumVal(dd), year |-> NumVal(yyyy)]
           ELSE NoDate

\* .strftime('%b %d, %Y') of the script parser
FormatHuman(d) == months[d.month] \o <<" ">> \o Pad(d.day, 2) \o <<",", " ">> \o Pad(d.year, 4)

\* .strftime('%Y-%m-%d') of the core parser
FormatIso(d) == Pad(d.year, 4) \o <<"-">> \o Pad(d.month, 2) \o <<"-">> \o Pad(d.day, 2)

(***************************************************************************)
(* split_concatenated_text: " ".join(wordninja.split(text)).  wordninja    *)
(* cuts the text at every run of characters outside [a-zA-Z0-9'] and then  *)
(* cuts each remaining run into dictionary words with a word-frequency     *)
(* model that is not part of this repository.  The cut of a run is taken   *)
(* from Lexicon when the run is listed there; any other run is one word.   *)
(***************************************************************************)
NinjaChars == Letters \cup Digits \cup {"'"}

RECURSIVE RunsFrom(_, _, _)
RunsFrom(s, cur, acc) ==
  IF s = << >> THEN (IF cur = << >> THEN acc ELSE Append(acc, cur))
  ELSE IF Head(s) \notin NinjaChars
       THEN RunsFrom(Tail(s), << >>, IF cur = << >> THEN acc ELSE Append(acc, cur))
       ELSE RunsFrom(Tail(s), Append(cur, Head(s)), acc)

Lexicon ==
  << [run   |-> <<"G","r","o","c","e","r","y","S","t","o","r","e","X","Y","Z">>,
      words |-> << <<"G","r","o","c","e","r","y">>, <<"S","t","o","r","e">>, <<"X","Y","Z">> >>],
     [run   |-> <<"T","r","a","n","s","f","e","r","f","r","o","m">>,
      words |-> << <<"T","r","a","n","s","f","e","r">>, <<"f","r","o","m">> >>] >>

SegmentRun(run) ==
  IF \E i \in 1..Len(Lexicon) : Lexicon[i].run = run
  THEN Lexicon[CHOOSE i \in 1..Len(Lexicon) : Lexicon[i].run = run].words
  ELSE <<run>>

RECURSIVE SegmentRuns(_)
SegmentRuns(runs) ==
  IF runs = << >> THEN << >> ELSE SegmentRun(Head(runs)) \o SegmentRuns(Tail(runs))

split_concatenated_text(text) == Join(SegmentRuns(RunsFrom(text, << >>, << >>)), <<" ">>)

(***************************************************************************)
(* One iteration of `for line in lines` of extract_transactions_from_page  *)
(* (script) and DataProcessor.extract_transactions (core).  A transaction  *)
(* is the list [date, description, withdrawal, deposit, balance].          *)
(***************************************************************************)
Last(s) == s[Len(s)]

Front(s) == SubSeq(s, 1, Len(s) - 1)

\* if not parts[-1].isdigit() and parts[-1].isalpha(): del parts[-1]
TrimTrailingAlpha(parts) ==
  IF ~IsDigit(Last(parts)) /\ IsAlpha(Last(parts)) THEN Front(parts) ELSE parts

\* [part for part in parts[1:-2] if not re.match(r'^\d+(\.\d{1,2})?$', part)]
RECURSIVE FilterNumeric(_)
FilterNumeric(ps) ==
  IF ps = << >> THEN << >>
  ELSE IF MatchesNumeric(Head(ps)) THEN FilterNumeric(Tail(ps))
  ELSE <<Head(ps)>> \o FilterNumeric(Tail(ps))

DescriptionOf(parts) ==
  split_concatenated_text(Join(FilterNumeric(Slice(parts, 2, Len(parts) - 2)), <<" ">>))

\* the test with the second trigger forgotten
IsDepositFirstTrigOnly(parts) == Contains(parts, DEPOSIT_TRIGS[1])

\* deposit = parts[-2], withdrawal = None when a trigger is in parts; else the reverse
IsDeposit(parts) == HasDepositTrig(parts)

\* the amount written to both columns
TransactionBothAmounts(date, parts) ==
  [date        |-> date,
   description |-> DescriptionOf(parts),
   withdrawal  |-> parts[Len(parts) - 1],
   deposit     |-> IF IsDeposit(parts) THEN parts[Len(parts) - 1] ELSE NoneVal,
   balance     |-> Last(parts)]

\* the list appended to transactions, for a date already completed
Transaction(date, parts) ==
  [date        |-> date,
   description |-> DescriptionOf(parts),
   withdrawal  |-> IF IsDeposit(parts) THEN NoneVal ELSE parts[Len(parts) - 1],
   deposit     |-> IF IsDeposit(parts) THEN parts[Len(parts) - 1] ELSE NoneVal,
   balance     |-> Last(parts)]

\* date = f"{date}{extracted_year}"; pd.to_datetime(...).strftime(...)
CompleteDate(date, year) == ParseDate(date \o year)

FormatDate(d, iso) == IF iso THEN FormatIso(d) ELSE FormatHuman(d)

\* the starting line rejected while no year is resolved
StartLineNeedsYear(line, year, iso, txs) ==
  LET parts == TrimTrailingAlpha(Split(line))
  IN  IF parts = << >> THEN [kind |-> "index_error", txs |-> txs]
      ELSE IF year = NoneVal \/ ~CompleteDate(parts[1], year).ok
           THEN [kind |-> "rejected", txs |-> txs]
      ELSE IF Len(parts) < 2 THEN [kind |-> "index_error", txs |-> txs]
      ELSE [kind |-> "built",
            txs  |-> Append(txs, Transaction(FormatDate(CompleteDate(parts[1], year), iso), parts))]

\* the ValueError swallowed without `continue`: the date stays as written
StartLineKeepsBadDate(line, year, iso, txs) ==
  LET parts == TrimTrailingAlpha(Split(line))
  IN  IF parts = << >> \/ Len(parts) < 2 THEN [kind |-> "index_error", txs |-> txs]
      ELSE LET date == IF year # NoneVal /\ CompleteDate(parts[1], year).ok
                       THEN FormatDate(CompleteDate(parts[1], year), iso)
                       ELSE parts[1]
           IN  [kind |-> "built", txs |-> Append(txs, Transaction(date, parts))]

\* the branch `if any(line.startswith(month) ...)`: what the starting line
\* does to the page's list. "index_error" is the IndexError of parts[0] on
\* an emptied list or of parts[-2] on a single token; "rejected" is the
\* `continue` of the except ValueError clause.
StartLine(line, year, iso, txs) ==
  LET parts == TrimTrailingAlpha(Split(line))
  IN  IF parts = << >> THEN [kind |-> "index_error", txs |-> txs]
      ELSE IF year # NoneVal /\ ~CompleteDate(parts[1], year).ok
           THEN [kind |-> "rejected", txs |-> txs]
      ELSE IF Len(parts) < 2 THEN [kind |-> "index_error", txs |-> txs]
      ELSE LET date == IF year # NoneVal
                       THEN FormatDate(CompleteDate(parts[1], year), iso)
                       ELSE parts[1]
           IN  [kind |-> "built", txs |-> Append(txs, Transaction(date, parts))]

\* the continuation kept as a record of its own
ReflowAsNewRecord(line, txs) ==
  Append(txs, [Last(txs) EXCEPT !.description = split_concatenated_text(line)])

\* transactions[-1][1] += ' ' + split_concatenated_text(line)
Reflow(line, txs) ==
  [txs EXCEPT ![Len(txs)].description = @ \o <<" ">> \o split_concatenated_text(line)]

\* the body of the loop for one raw line
LineStep(raw, year, iso, txs) ==
  LET line == Strip(raw)
  IN  IF StartsWithMonth(line) THEN StartLine(line, year, iso, txs)
      ELSE IF txs # << >> THEN [kind |-> "continuation", txs |-> Reflow(line, txs)]
      ELSE [kind |-> "discarded", txs |-> txs]

(***************************************************************************)
(* DataProcessor.preprocess_transactions, on the five columns the parser   *)
(* fills and on which rows survive.  The derived columns (type, category,  *)
(* alerts, monthly sums) read these five and change neither them nor the   *)
(* set of rows; they are not carried.                                      *)
(***************************************************************************)
OpeningToken == <<"O","p","e","n","i","n","g","B","a","l","a","n","c","e">>

ClosingToken == <<"C","l","o","s","i","n","g","B","a","l","a","n","c","e">>

OpeningText == <<"O","p","e","n","i","n","g"," ","B","a","l","a","n","c","e">>

ClosingText == <<"C","l","o","s","i","n","g"," ","B","a","l","a","n","c","e">>

\* df.loc[df['withdrawals'] == 'OpeningBalance', ...] and the Closing pair
MarkBalanceRow(t) ==
  IF t.withdrawal = OpeningToken
  THEN [t EXCEPT !.description = OpeningText, !.withdrawal = NoneVal]
  ELSE IF t.withdrawal = ClosingToken
  THEN [t EXCEPT !.description = ClosingText, !.withdrawal = NoneVal]
  ELSE t

RECURSIVE RemoveChars(_, _)
RemoveChars(s, chars) ==
  IF s = << >> THEN << >>
  ELSE IF Head(s) \in chars THEN RemoveChars(Tail(s), chars)
  ELSE <<Head(s)>> \o RemoveChars(Tail(s), chars)

\* .str.replace(',', '').str.replace('$', '')
CleanAmount(s) == RemoveChars(s, {",", "$"})

Unsigned(s) == IF s # << >> /\ Head(s) \in {"+", "-"} THEN Tail(s) ELSE s

DotPositions(s) == {k \in 1..Len(s) : s[k] = "."}

\* whether astype(np.float32) accepts the text: an optional sign, digits with
\* at most one decimal point, at least one digit.  (float() also accepts
\* exponents, underscores and the words inf and nan.)
IsFloatText(s) ==
  LET u == Unsigned(s)
  IN  /\ AllIn(u, Digits \cup {"."})
      /\ Cardinality(DotPositions(u)) <= 1
      /\ \E k \in 1..Len(u) : u[k] \in Digits

RECURSIVE DropLeadingZeros(_)
DropLeadingZeros(s) ==
  IF Len(s) > 1 /\ Head(s) = "0" THEN DropLeadingZeros(Tail(s)) ELSE s

RECURSIVE DropTrailingZeros(_)
DropTrailingZeros(s) ==
  IF s # << >> /\ Last(s) = "0" THEN DropTrailingZeros(Front(s)) ELSE s

NaN == [nan |-> TRUE, neg |-> FALSE, whole |-> << >>, frac |-> << >>]

\* the number a column holds after astype: None becomes NaN; a text becomes its
\* decimal value (sign, integer digits, fraction digits), so that 50.00 and
\* 50.0 are one value.  Rounding to 32 bits is not carried.
ToFloat(s) ==
  IF s = NoneVal THEN NaN
  ELSE LET u == Unsigned(CleanAmount(s))
           k == IF DotPositions(u) = {} THEN Len(u) + 1 ELSE CHOOSE d \in DotPositions(u) : TRUE
           w == DropLeadingZeros(Slice(u, 1, k - 1))
           f == DropTrailingZeros(Slice(u, k + 1, Len(u)))
       IN  [nan   |-> FALSE,
            whole |-> IF w = << >> THEN <<"0">> ELSE w,
            frac  |-> f,
            neg   |-> Head(CleanAmount(s)) = "-" /\ (w \o f) # << >> /\ ~AllIn(w \o f, {"0"})]

ConvertsToFloat(s) == s = NoneVal \/ IsFloatText(CleanAmount(s))

\* a text that pd.to_datetime reads back as the date strftime('%Y-%m-%d') wrote
IsIsoDate(s) ==
  /\ Len(s) = 10 /\ s[5] = "-" /\ s[8] = "-"
  /\ IsDigit(SubSeq(s, 1, 4)) /\ IsDigit(SubSeq(s, 6, 7)) /\ IsDigit(SubSeq(s, 9, 10))
  /\ NumVal(SubSeq(s, 6, 7)) \in 1..12
  /\ NumVal(SubSeq(s, 9, 10)) \in 1..DaysInMonth(NumVal(SubSeq(s, 6, 7)), NumVal(SubSeq(s, 1, 4)))

\* pd.to_datetime(df['date'], errors='coerce') on one text
ToTimestamp(s) ==
  IF IsIsoDate(s)
  THEN [known |-> TRUE, year |-> NumVal(SubSeq(s, 1, 4)), month |-> NumVal(SubSeq(s, 6, 7)),
        day |-> NumVal(SubSeq(s, 9, 10)), text |-> << >>]
  ELSE [known |-> FALSE, year |-> 0, month |-> 0, day |-> 0, text |-> s]

Row(t) ==
  [date        |-> ToTimestamp(t.date),
   description |-> t.description,
   withdrawals |-> ToFloat(t.withdrawal),
   deposits    |-> ToFloat(t.deposit),
   balance     |-> ToFloat(t.balance)]

RECURSIVE SelectRows(_, _, _)
SelectRows(ts, i, keep) ==
  IF ts = << >> THEN << >>
  ELSE (IF i \in keep THEN <<Row(Head(ts))>> ELSE << >>) \o SelectRows(Tail(ts), i + 1, keep)

MapMark(ts) == [i \in 1..Len(ts) |-> MarkBalanceRow(ts[i])]

\* the astype(np.float32) of the three amount columns raises ValueError
AmountsRaise(ts) ==
  \E i \in 1..Len(ts) :
    ~(ConvertsToFloat(ts[i].withdrawal) /\ ConvertsToFloat(ts[i].deposit)
        /\ ConvertsToFloat(ts[i].balance))

\* the rows dropna and the two description filters may leave.  A date written
\* without a year (the parser's unparsed first token) is not in the format
\* the column is read with; whether errors='coerce' makes it NaT depends on
\* the installed date parser, so such a row may be kept or dropped.
KeepSets(ts) ==
  LET sure == {i \in 1..Len(ts) : /\ IsIsoDate(ts[i].date)
                                  /\ ts[i].description \notin {OpeningText, ClosingText}}
      may  == {i \in 1..Len(ts) : /\ ~IsIsoDate(ts[i].date)
                                  /\ ts[i].description \notin {OpeningText, ClosingText}}
  IN  {sure \cup m : m \in SUBSET may}

\* the outcomes of preprocess_transactions(DataFrame(transactions)): it raises,
\* or returns the rows it keeps.  On a frame left without rows the later
\* df.apply(..., axis=1) yields a frame, whose assignment to one column
\* raises in some pandas versions: both outcomes are allowed there.
preprocess_transactions(txs) ==
  LET ts == MapMark(txs)
  IN  IF AmountsRaise(ts) THEN {[raised |-> TRUE, rows |-> << >>]}
      ELSE {[raised |-> FALSE, rows |-> SelectRows(ts, 1, keep)] : keep \in KeepSets(ts)}
           \cup (IF {} \in KeepSets(ts) THEN {[raised |-> TRUE, rows |-> << >>]} ELSE {})

(***************************************************************************)
(* The text the extractor hands over: words, and lines made of words.      *)
(***************************************************************************)
W_Jan15 == <<"J","a","n","1","5">>

W_jan15 == <<"j","a","n","1","5">>

W_Jan == <<"J","a","n">>

W_15 == <<"1","5">>

W_Mar3 == <<"M","a","r","3">>

W_Feb30 == <<"F","e","b","3","0">>

W_Feb29 == <<"F","e","b","2","9">>

W_May == <<"M","a","y">>

W_Mayfair == <<"M","a","y","f","a","i","r">>

W_Road == <<"R","o","a","d">>

W_12 == <<"1","2">>

W_Store == <<"S","t","o","r","e">>

W_GroceryStoreXYZ == <<"G","r","o","c","e","r","y","S","t","o","r","e","X","Y","Z">>

W_Deposit == <<"D","e","p","o","s","i","t">>

W_MBTransferfrom == <<"M","B","-","T","r","a","n","s","f","e","r","f","r","o","m">>

W_Coffee == <<"C","o","f","f","e","e">>

W_Shop == <<"S","h","o","p">>

W_POS == <<"P","O","S">>

W_50_00 == <<"5","0",".","0","0">>

W_1200_00 == <<"1","2","0","0",".","0","0">>

W_20_00 == <<"2","0",".","0","0">>

W_80_00 == <<"8","0",".","0","0">>

W_4_50 == <<"4",".","5","0">>

W_995_50 == <<"9","9","5",".","5","0">>

W_5_00 == <<"5",".","0","0">>

W_additional == <<"a","d","d","i","t","i","o","n","a","l">>

W_note == <<"n","o","t","e">>

W_text == <<"t","e","x","t">>

W_STATEMENT == <<"S","T","A","T","E","M","E","N","T">>

W_Period == <<"P","e","r","i","o","d">>

W_2024 == <<"2","0","2","4">>

W_2025 == <<"2","0","2","5">>

W_OpeningBalance == <<"O","p","e","n","i","n","g","B","a","l","a","n","c","e">>

\* "Jan15 Store 50.00 1200.00"
L_Withdrawal == Join(<<W_Jan15, W_Store, W_50_00, W_1200_00>>, <<" ">>)

\* "Jan15 GroceryStoreXYZ Deposit 50.00 1200.00"
L_DepositMid == Join(<<W_Jan15, W_GroceryStoreXYZ, W_Deposit, W_50_00, W_1200_00>>, <<" ">>)

\* "Mar3 Store 50.00 1200.00 Deposit"
L_DepositLast == Join(<<W_Mar3, W_Store, W_50_00, W_1200_00, W_Deposit>>, <<" ">>)

\* "Mar3 MB-Transferfrom 20.00 80.00"
L_Transfer == Join(<<W_Mar3, W_MBTransferfrom, W_20_00, W_80_00>>, <<" ">>)

\* "Jan15 Store 20.00 MB-Transferfrom"
L_TransferLast == Join(<<W_Jan15, W_Store, W_20_00, W_MBTransferfrom>>, <<" ">>)

\* "Feb30 Store 50.00 1200.00"
L_BadDate == Join(<<W_Feb30, W_Store, W_50_00, W_1200_00>>, <<" ">>)

\* "Feb29 Store 50.00 1200.00"
L_LeapDay == Join(<<W_Feb29, W_Store, W_50_00, W_1200_00>>, <<" ">>)

\* "Jan 15 GroceryStoreXYZ Deposit 50.00 1200.00"
L_Spaced == Join(<<W_Jan, W_15, W_GroceryStoreXYZ, W_Deposit, W_50_00, W_1200_00>>, <<" ">>)

\* "Mayfair Road 12 5.00"
L_Mayfair == Join(<<W_Mayfair, W_Road, W_12, W_5_00>>, <<" ">>)

\* "Jan15 Coffee Shop 4.50 995.50 POS"
L_Tagged == Join(<<W_Jan15, W_Coffee, W_Shop, W_4_50, W_995_50, W_POS>>, <<" ">>)

\* "May"
L_Short == Join(<<W_May>>, <<" ">>)

\* "Jan15 OpeningBalance 1200.00"
L_Opening == Join(<<W_Jan15, W_OpeningBalance, W_1200_00>>, <<" ">>)

\* "STATEMENT 2024"
L_Year2024 == Join(<<W_STATEMENT, W_2024>>, <<" ">>)

\* "Period 2025"
L_Year2025 == Join(<<W_Period, W_2025>>, <<" ">>)

\* "jan15 Store 50.00 1200.00"
L_Lower == Join(<<W_jan15, W_Store, W_50_00, W_1200_00>>, <<" ">>)

\* "  additional note text"
L_Note == <<" ", " ">> \o Join(<<W_additional, W_note, W_text>>, <<" ">>)

\* ""
L_Empty == << >>

W_Total == <<"T","o","t","a","l">>

W_2024_50 == <<"2","0","2","4",".","5","0">>

W_Acct == <<"A","c","c","t">>

W_20245 == <<"2","0","2","4","5">>

W_ID_2025 == <<"I","D","_","2","0","2","5">>

W_2025_01_31 == <<"2","0","2","5","-","0","1","-","3","1">>

W_1999 == <<"1","9","9","9">>

\* "Total 2024.50"
L_Amount2024 == Join(<<W_Total, W_2024_50>>, <<" ">>)

\* "Acct 20245"
L_Account == Join(<<W_Acct, W_20245>>, <<" ">>)

\* "ID_2025 1999"
L_Ident == Join(<<W_ID_2025, W_1999>>, <<" ">>)

\* "Period 2025-01-31"
L_IsoPeriod == Join(<<W_Period, W_2025_01_31>>, <<" ">>)

W_Payment == <<"P","a","y","m","e","n","t">>

W_123 == <<"1","2","3">>

W_to == <<"t","o">>

W_45_00 == <<"4","5",".","0","0">>

W_Acme == <<"A","c","m","e">>

W_12_345 == <<"1","2",".","3","4","5">>

W_dot50 == <<".","5","0">>

W_5dot == <<"5",".">>

W_7_5 == <<"7",".","5">>

W_Dash == <<"-">>

\* "Jan15 Payment 123 to 45.00 Acme 20.00 80.00"
L_Payment ==
  Join(<<W_Jan15, W_Payment, W_123, W_to, W_45_00, W_Acme, W_20_00, W_80_00>>, <<" ">>)

\* "Jan15 12.345 7.5 .50 5. 20.00 80.00"
L_Decimals == Join(<<W_Jan15, W_12_345, W_7_5, W_dot50, W_5dot, W_20_00, W_80_00>>, <<" ">>)

\* "Jan15 Payment - Acme 20.00 80.00"
L_Dash == Join(<<W_Jan15, W_Payment, W_Dash, W_Acme, W_20_00, W_80_00>>, <<" ">>)

\* "Jan15 123 20.00 80.00 POS"
L_RefOnly == Join(<<W_Jan15, W_123, W_20_00, W_80_00, W_POS>>, <<" ">>)

\* "Jan15"
L_DateOnly == Join(<<W_Jan15>>, <<" ">>)

\* "Jan15 5.00"
L_DateAmount == Join(<<W_Jan15, W_5_00>>, <<" ">>)

(***************************************************************************)
(* State.                                                                  *)
(*   variant  "script": scripts/extract_transactions.py                    *)
(*            "core":   core/data_preprocessor.py (DataProcessor)          *)
(*   entry    the function a run calls: "page" the page parser, "doc" the  *)
(*            single-document driver, "dir" the directory driver, "year"   *)
(*            the year resolver                                            *)
(*   pc       "dir_loop", "page_loop", "line_loop", "year_loop": the loop  *)
(*            about to take its next iteration; "returned": entry          *)
(*            returned; "raised": an exception left entry                  *)
(* The other variables carry the names of the code's locals.  frames and   *)
(* last are history variables: the frames the document driver returned to  *)
(* the directory driver, and what the latest loop iteration of the page    *)
(* parser did (with the lists as they were before it).                     *)
(***************************************************************************)
VARIABLES variant, entry, pc,
          directory, fileIdx, all_transactions, file_count, reported,
          pages, pageIdx, extracted_year, transactions, frame,
          lines, lineIdx, page_transactions,
          frames, last

vars == <<variant, entry, pc, directory, fileIdx, all_transactions, file_count, reported,
          pages, pageIdx, extracted_year, transactions, frame,
          lines, lineIdx, page_transactions, frames, last>>

dirVars == <<directory, fileIdx, all_transactions, file_count, reported, frames>>

docVars == <<pages, pageIdx, extracted_year, transactions, frame>>

pageVars == <<lines, lineIdx, page_transactions>>

Variants == {"script", "core"}

iso == variant = "core"

NoLast == [kind |-> "none", raw |-> << >>, year |-> NoneVal, page_before |-> << >>,
           doc_before |-> << >>]

BoundedSeq(S, n) == UNION {[1..k -> S] : k \in 0..n}

\* a page of the document: the extractor fails on it (page.extract_text()
\* raises, or is None and text.split raises: hasText = FALSE), or
\* text.split('\n') is lines
TextPage(ls) == [hasText |-> TRUE, lines |-> ls]

NoTextPage == [hasText |-> FALSE, lines |-> << >>]

\* ---- the page parser called alone: extract_transactions_from_page(lines, year)
PageMaxLines == 3

PagePool == {L_Withdrawal, L_DepositMid, L_DepositLast, L_Transfer, L_BadDate, L_Spaced,
             L_Mayfair, L_Tagged, L_Short, L_Lower, L_Note}

PageYears == {NoneVal, W_2024}

\* ---- one document: a text cut into pages at the form feeds
MaxItems == 5

PageBreak == <<"\f">>

DocPool == {L_Year2024, L_Year2025, L_Withdrawal}

\* the pages of a text; a page without any line is the text "", whose split is ['']
RECURSIVE PaginateFrom(_, _, _)
PaginateFrom(items, cur, acc) ==
  LET done == Append(acc, TextPage(IF cur = << >> THEN <<L_Empty>> ELSE cur))
  IN  IF items = << >> THEN done
      ELSE IF Head(items) = PageBreak THEN PaginateFrom(Tail(items), << >>, done)
      ELSE PaginateFrom(Tail(items), Append(cur, Head(items)), acc)

Paginate(items) == PaginateFrom(items, << >>, << >>)

\* ---- a directory: os.listdir(directory_path)
MaxFiles == 2

PdfFile(ps) == [pdf |-> TRUE, pages |-> ps]

OtherFile == [pdf |-> FALSE, pages |-> << >>]

FilePool ==
  { PdfFile(<<TextPage(<<L_Year2024, L_Withdrawal, L_Note>>)>>),
    PdfFile(<<TextPage(<<L_Withdrawal>>), TextPage(<<L_Year2025, L_DepositMid>>)>>),
    PdfFile(<<NoTextPage>>),
    PdfFile(<<TextPage(<<L_Year2024, L_Tagged>>), NoTextPage>>),
    PdfFile(<<TextPage(<<L_Year2024, L_Short>>)>>),
    PdfFile(<<TextPage(<<L_Year2025, L_TransferLast>>)>>),
    PdfFile(<<TextPage(<<L_Year2024, L_Opening>>)>>),
    OtherFile }

\* extract_transactions_from_page(lines, extracted_year) is called
InitPage ==
  /\ variant \in Variants
  /\ entry = "page"
  /\ pc = "line_loop"
  /\ directory = << >> /\ fileIdx = 1 /\ all_transactions = << >>
  /\ file_count = 0 /\ reported = 0 /\ frames = << >>
  /\ pages = << >> /\ pageIdx = 1 /\ transactions = << >> /\ frame = << >>
  /\ lines \in BoundedSeq(PagePool, PageMaxLines)
  /\ extracted_year \in PageYears
  /\ lineIdx = 1 /\ page_transactions = << >>
  /\ last = NoLast

\* process_single_pdf(file_path) / process_pdf(file_path) is called
InitDoc ==
  /\ variant \in Variants
  /\ entry = "doc"
  /\ pc = "page_loop"
  /\ directory = << >> /\ fileIdx = 1 /\ all_transactions = << >>
  /\ file_count = 0 /\ reported = 0 /\ frames = << >>
  /\ \E items \in BoundedSeq(DocPool \cup {PageBreak}, MaxItems) : pages = Paginate(items)
  /\ pageIdx = 1 /\ extracted_year = NoneVal /\ transactions = << >> /\ frame = << >>
  /\ lines = << >> /\ lineIdx = 1 /\ page_transactions = << >>
  /\ last = NoLast

\* process_all_pdfs_in_directory(path) / process_directory(path) is called
Init ==
  /\ variant \in Variants
  /\ entry = "dir"
  /\ pc = "dir_loop"
  /\ directory \in BoundedSeq(FilePool, MaxFiles)
  /\ fileIdx = 1 /\ all_transactions = << >>
  /\ file_count = 0 /\ reported = 0 /\ frames = << >>
  /\ pages = << >> /\ pageIdx = 1 /\ extracted_year = NoneVal
  /\ transactions = << >> /\ frame = << >>
  /\ lines = << >> /\ lineIdx = 1 /\ page_transactions = << >>
  /\ last = NoLast

\* ---- the page parser called on lines with numbers among the description words
DescMaxLines == 2

DescPool == {L_Payment, L_Decimals, L_Dash, L_RefOnly, L_DepositMid, L_Transfer, L_Tagged,
             L_Note}

InitDesc ==
  /\ variant \in Variants
  /\ entry = "page"
  /\ pc = "line_loop"
  /\ directory = << >> /\ fileIdx = 1 /\ all_transactions = << >>
  /\ file_count = 0 /\ reported = 0 /\ frames = << >>
  /\ pages = << >> /\ pageIdx = 1 /\ transactions = << >> /\ frame = << >>
  /\ lines \in BoundedSeq(DescPool, DescMaxLines)
  /\ extracted_year \in PageYears
  /\ lineIdx = 1 /\ page_transactions = << >>
  /\ last = NoLast

\* ---- the page parser called on lines with short starting lines among them
ShortMaxLines == 3

ShortPool == {L_Short, L_DateOnly, L_DateAmount, L_Withdrawal, L_Note}

InitShort ==
  /\ variant \in Variants
  /\ entry = "page"
  /\ pc = "line_loop"
  /\ directory = << >> /\ fileIdx = 1 /\ all_transactions = << >>
  /\ file_count = 0 /\ reported = 0 /\ frames = << >>
  /\ pages = << >> /\ pageIdx = 1 /\ transactions = << >> /\ frame = << >>
  /\ lines \in BoundedSeq(ShortPool, ShortMaxLines)
  /\ extracted_year \in PageYears
  /\ lineIdx = 1 /\ page_transactions = << >>
  /\ last = NoLast

\* ---- the year resolver called alone: extract_year(lines)
YearMaxLines == 3

YearPool == {L_Year2024, L_Amount2024, L_Account, L_Ident, L_IsoPeriod, L_Withdrawal}

InitYear ==
  /\ variant \in Variants
  /\ entry = "year"
  /\ pc = "year_loop"
  /\ directory = << >> /\ fileIdx = 1 /\ all_transactions = << >>
  /\ file_count = 0 /\ reported = 0 /\ frames = << >>
  /\ pages = << >> /\ pageIdx = 1 /\ transactions = << >> /\ frame = << >>
  /\ lines \in BoundedSeq(YearPool, YearMaxLines)
  /\ extracted_year = NoneVal
  /\ lineIdx = 1 /\ page_transactions = << >>
  /\ last = NoLast

\* the page parser continuing the document's list
NewPageListShared == transactions

\* transactions = [] at the top of the page parser
NewPageList == << >>

\* the year looked for again on every page
ResolveYearEveryPage(year, ls) == IF extract_year(ls) # NoneVal THEN extract_year(ls) ELSE year

\* if not extracted_year: extracted_year = extract_year(lines)
ResolveYear(year, ls) == IF year = NoneVal THEN extract_year(ls) ELSE year

\* try: ... except Exception as e: print(...) around process_pdf
Catches == entry = "dir" /\ variant = "core"

\* an exception leaves the document driver: process_directory prints it and
\* goes on with the next file; nothing else handles it
Propagate ==
  IF Catches
  THEN /\ pc' = "dir_loop"
       /\ fileIdx' = fileIdx + 1
       /\ reported' = reported + 1
  ELSE /\ pc' = "raised"
       /\ UNCHANGED <<fileIdx, reported>>

\* for file_name in os.listdir(directory_path): if file_name.endswith('.pdf'):
\* the next file is opened, or passed over
NextFile ==
  /\ pc = "dir_loop" /\ fileIdx <= Len(directory)
  /\ IF directory[fileIdx].pdf
     THEN /\ pages' = directory[fileIdx].pages
          /\ pageIdx' = 1
          /\ extracted_year' = NoneVal
          /\ transactions' = << >>
          /\ pc' = "page_loop"
          /\ UNCHANGED fileIdx
     ELSE /\ fileIdx' = fileIdx + 1
          /\ UNCHANGED <<pages, pageIdx, extracted_year, transactions, pc>>
  /\ last' = NoLast
  /\ UNCHANGED <<variant, entry, directory, all_transactions, file_count, reported, frames,
                 frame, pageVars>>

\* return all_transactions
DirReturn ==
  /\ pc = "dir_loop" /\ fileIdx > Len(directory)
  /\ pc' = "returned"
  /\ last' = NoLast
  /\ UNCHANGED <<variant, entry, dirVars, docVars, pageVars>>

\* for page in pdf.pages: text = page.extract_text(); lines = text.split('\n');
\* if not extracted_year: extracted_year = extract_year(lines); the page parser
\* is entered.  A page the extractor fails on raises here (AttributeError of
\* text.split when extract_text() is None).
ReadPage ==
  /\ pc = "page_loop" /\ pageIdx <= Len(pages)
  /\ IF pages[pageIdx].hasText
     THEN /\ lines' = pages[pageIdx].lines
          /\ extracted_year' = ResolveYear(extracted_year, pages[pageIdx].lines)
          /\ lineIdx' = 1
          /\ page_transactions' = NewPageList
          /\ pc' = "line_loop"
          /\ UNCHANGED <<fileIdx, reported>>
     ELSE /\ Propagate
          /\ UNCHANGED <<lines, extracted_year, lineIdx, page_transactions>>
  /\ last' = NoLast
  /\ UNCHANGED <<variant, entry, directory, all_transactions, file_count, frames,
                 pages, pageIdx, transactions, frame>>

\* one iteration of `for line in lines`
ProcessLine ==
  /\ pc = "line_loop" /\ lineIdx <= Len(lines)
  /\ LET r == LineStep(lines[lineIdx], extracted_year, iso, page_transactions)
     IN  /\ last' = [kind |-> r.kind, raw |-> lines[lineIdx], year |-> extracted_year,
                     page_before |-> page_transactions, doc_before |-> transactions]
         /\ IF r.kind = "index_error"
            THEN /\ Propagate
                 /\ UNCHANGED <<lineIdx, page_transactions>>
            ELSE /\ page_transactions' = r.txs
                 /\ lineIdx' = lineIdx + 1
                 /\ UNCHANGED <<pc, fileIdx, reported>>
  /\ UNCHANGED <<variant, entry, directory, all_transactions, file_count, frames,
                 docVars, lines>>

\* return transactions, and in the document driver transactions.extend(...)
PageReturn ==
  /\ pc = "line_loop" /\ lineIdx > Len(lines)
  /\ IF entry = "page"
     THEN /\ pc' = "returned"
          /\ UNCHANGED <<transactions, pageIdx>>
     ELSE /\ transactions' = transactions \o page_transactions
          /\ pageIdx' = pageIdx + 1
          /\ pc' = "page_loop"
  /\ last' = NoLast
  /\ UNCHANGED <<variant, entry, dirVars, pages, extracted_year, frame, pageVars>>

\* the frame process_single_pdf / process_pdf may return, or its raising
DocOutcomes ==
  IF iso THEN preprocess_transactions(transactions)
  ELSE {[raised |-> FALSE, rows |-> transactions]}

\* return pd.DataFrame(transactions, columns) (script), or its preprocessing
\* (core); in the directory driver the result is concatenated:
\* all_transactions = pd.concat([all_transactions, transactions]); file_count += 1
DocReturn ==
  /\ pc = "page_loop" /\ pageIdx > Len(pages)
  /\ \E o \in DocOutcomes :
       IF o.raised
       THEN /\ Propagate
            /\ UNCHANGED <<frame, all_transactions, file_count, frames>>
       ELSE /\ frame' = o.rows
            /\ IF entry = "dir"
               THEN /\ all_transactions' = all_transactions \o o.rows
                    /\ file_count' = IF iso THEN file_count + 1 ELSE file_count
                    /\ frames' = Append(frames, o.rows)
                    /\ fileIdx' = fileIdx + 1
                    /\ pc' = "dir_loop"
                    /\ UNCHANGED reported
               ELSE /\ pc' = "returned"
                    /\ UNCHANGED <<all_transactions, file_count, frames, fileIdx, reported>>
  /\ last' = NoLast
  /\ UNCHANGED <<variant, entry, directory, pages, pageIdx, extracted_year, transactions,
                 pageVars>>

\* one iteration of `for line in lines` of extract_year: the match is
\* returned as soon as a line has one
ScanYearLine ==
  /\ pc = "year_loop" /\ lineIdx <= Len(lines)
  /\ LET year_match == SearchYear(lines[lineIdx])
     IN  IF year_match # NoneVal
         THEN /\ extracted_year' = year_match
              /\ pc' = "returned"
              /\ UNCHANGED lineIdx
         ELSE /\ lineIdx' = lineIdx + 1
              /\ UNCHANGED <<pc, extracted_year>>
  /\ UNCHANGED <<variant, entry, dirVars, pages, pageIdx, transactions, frame,
                 lines, page_transactions, last>>

\* return None after the loop
YearNotFound ==
  /\ pc = "year_loop" /\ lineIdx > Len(lines)
  /\ extracted_year' = NoneVal
  /\ pc' = "returned"
  /\ UNCHANGED <<variant, entry, dirVars, pages, pageIdx, transactions, frame,
                 pageVars, last>>

NextYear == ScanYearLine \/ YearNotFound

NextPage == ProcessLine \/ PageReturn

NextDoc == ReadPage \/ ProcessLine \/ PageReturn \/ DocReturn

Next == NextFile \/ DirReturn \/ ReadPage \/ ProcessLine \/ PageReturn \/ DocReturn

SpecYear == InitYear /\ [][NextYear]_vars

SpecDesc == InitDesc /\ [][NextPage]_vars

SpecShort == InitShort /\ [][NextPage]_vars

SpecPage == InitPage /\ [][NextPage]_vars

SpecDoc == InitDoc /\ [][NextDoc]_vars

Spec == Init /\ [][Next]_vars

(***************************************************************************)
(* The same functions taken as a whole, call to return.                    *)
(***************************************************************************)
\* extract_transactions_from_page(lines, extracted_year), from the list txs
RECURSIVE PageFold(_, _, _, _)
PageFold(ls, year, isoDate, txs) ==
  IF ls = << >> THEN [raised |-> FALSE, txs |-> txs]
  ELSE LET r == LineStep(Head(ls), year, isoDate, txs)
       IN  IF r.kind = "index_error" THEN [raised |-> TRUE, txs |-> txs]
           ELSE PageFold(Tail(ls), year, isoDate, r.txs)

\* the page loop of process_single_pdf / process_pdf
RECURSIVE DocFold(_, _, _, _)
DocFold(ps, year, isoDate, txs) ==
  IF ps = << >> THEN [raised |-> FALSE, txs |-> txs]
  ELSE IF ~Head(ps).hasText THEN [raised |-> TRUE, txs |-> txs]
  ELSE LET y == ResolveYear(year, Head(ps).lines)
           p == PageFold(Head(ps).lines, y, isoDate, << >>)
       IN  IF p.raised THEN [raised |-> TRUE, txs |-> txs]
           ELSE DocFold(Tail(ps), y, isoDate, txs \o p.txs)

\* what process_single_pdf (isoDate FALSE) / process_pdf (isoDate TRUE) may do
DocResults(ps, isoDate) ==
  LET d == DocFold(ps, NoneVal, isoDate, << >>)
  IN  IF d.raised THEN {[raised |-> TRUE, rows |-> << >>]}
      ELSE IF isoDate THEN preprocess_transactions(d.txs)
      ELSE {[raised |-> FALSE, rows |-> d.txs]}

\* the frames process_directory may return: each pdf file adds the rows of one
\* of its outcomes, nothing when that outcome is an exception
RECURSIVE DirectoryResults(_)
DirectoryResults(files) ==
  IF files = << >> THEN {<< >>}
  ELSE IF ~Head(files).pdf THEN DirectoryResults(Tail(files))
  ELSE {o.rows \o rest : o \in DocResults(Head(files).pages, TRUE),
                         rest \in DirectoryResults(Tail(files))}

(***************************************************************************)
(* Claims.  They read the latest loop iteration of the page parser from    *)
(* last: the raw line, the year it was processed with, and the page's and  *)
(* the document's list as they were before it.                             *)
(***************************************************************************)
Populated(v) == v # NoneVal

LineProcessed == last.kind # "none"

\* the branch of the starting line was taken
StartHandled == last.kind \in {"built", "rejected", "index_error"}

LastLine == Strip(last.raw)

\* the whitespace-split tokens of the original line
LastTokens == Split(LastLine)

\* the tokens left once a trailing alphabetic token is discarded
LastParts == TrimTrailingAlpha(LastTokens)

NewTx == Last(page_transactions)

Markers == {W_Deposit, W_MBTransferfrom}

IsDepositRecord(t) == Populated(t.deposit) /\ ~Populated(t.withdrawal)

IsWithdrawalRecord(t) == Populated(t.withdrawal) /\ ~Populated(t.deposit)

AnyTokenIsMarker(toks) == \E i \in 1..Len(toks) : toks[i] \in Markers

\* a marker that is not the trailing alphabetic token the splitter discards
KeptTokenIsMarker(toks) ==
  \E i \in 1..Len(toks) :
    /\ toks[i] \in Markers
    /\ ~(i = Len(toks) /\ IsAlpha(toks[i]))

\* C1 as stated: a built transaction is a deposit exactly when some token of
\* the original line, at any position, is a deposit marker.
C1_Original ==
  last.kind = "built" =>
    IF AnyTokenIsMarker(LastTokens) THEN IsDepositRecord(NewTx) ELSE IsWithdrawalRecord(NewTx)

\* C1 amended: a built transaction is a deposit (deposit populated, withdrawal
\* absent) exactly when a deposit marker is among the tokens left after the
\* trailing alphabetic token was discarded, and a withdrawal otherwise; a
\* final token "Deposit" is discarded and does not count.
C1_Amended ==
  last.kind = "built" =>
    IF KeptTokenIsMarker(LastTokens) THEN IsDepositRecord(NewTx) ELSE IsWithdrawalRecord(NewTx)

C1_Witness ==
  /\ last.kind = "built"
  /\ KeptTokenIsMarker(LastTokens)
  /\ LET parts == LastParts IN NewTx.deposit = parts[Len(parts) - 1]
  /\ ~Populated(NewTx.withdrawal)

NoYearAnywhere ==
  \A p \in 1..Len(pages) : \A i \in 1..Len(pages[p].lines) :
    SearchYear(pages[p].lines[i]) = NoneVal

StartingLinesOfDocument ==
  {<<p, i>> \in (1..Len(pages)) \X (1..MaxItems + 1) :
     i <= Len(pages[p].lines) /\ StartsWithMonth(Strip(pages[p].lines[i]))}

\* C2 as stated: a starting line processed while no year is resolved leaves
\* the lists unchanged, and a document without a year returns no transaction.
C2_Original ==
  /\ (StartHandled /\ last.year = NoneVal) =>
       (page_transactions = last.page_before /\ transactions = last.doc_before)
  /\ (entry = "doc" /\ pc = "returned" /\ NoYearAnywhere) => transactions = << >>

\* C2 amended: a starting line processed while no year is resolved is not
\* rejected: when at least two tokens are left after the trailing alphabetic
\* token is discarded, it appends exactly one transaction, whose date is the
\* line's first token as written, without a year; a document with no year
\* anywhere returns one transaction for each of its starting lines.
C2_Amended ==
  /\ (LineProcessed /\ StartsWithMonth(LastLine) /\ last.year = NoneVal
        /\ Len(LastParts) >= 2) =>
       /\ last.kind = "built"
       /\ page_transactions = Append(last.page_before, NewTx)
       /\ NewTx.date = LastTokens[1]
       /\ transactions = last.doc_before
  /\ (entry = "doc" /\ pc = "returned" /\ NoYearAnywhere) =>
       Len(transactions) = Cardinality(StartingLinesOfDocument)

C2_Witness ==
  /\ entry = "doc" /\ pc = "returned" /\ NoYearAnywhere
  /\ Len(transactions) >= 2
  /\ \A i \in 1..Len(transactions) : transactions[i].date = W_Jan15

\* the transactions of the document in order: those of the earlier pages, then
\* those of the page being parsed
DocumentBefore == last.doc_before \o last.page_before

DocumentNow == transactions \o page_transactions

AppendedTo(before, now) ==
  /\ Len(now) = Len(before)
  /\ now = [before EXCEPT ![Len(before)].description =
                             @ \o <<" ">> \o split_concatenated_text(LastLine)]

\* C3 as stated: a non-starting, non-empty line processed while the document
\* already has a transaction is appended to the description of the document's
\* most recent transaction.
C3_Original ==
  (LineProcessed /\ ~StartsWithMonth(LastLine) /\ LastLine # << >>
     /\ DocumentBefore # << >>) =>
    AppendedTo(DocumentBefore, DocumentNow)

\* C3 amended: continuation is scoped to the page.  A non-starting line is
\* appended to the description of the most recent transaction built on its own
\* page; a non-starting line that comes before every transaction of its page
\* is discarded, also when earlier pages built transactions, and the
\* transactions of earlier pages are never changed.
C3_Amended ==
  (LineProcessed /\ ~StartsWithMonth(LastLine)) =>
    /\ transactions = last.doc_before
    /\ last.page_before # << >> => AppendedTo(last.page_before, page_transactions)
    /\ (last.page_before = << >> \/ lineIdx = 2) => page_transactions = << >>

C3_Witness ==
  /\ LineProcessed /\ ~StartsWithMonth(LastLine) /\ LastLine # << >>
  /\ last.doc_before # << >>
  /\ pageIdx > 1 /\ lineIdx = 2
  /\ page_transactions = << >>

\* <Mon><day> in one token, the day with one or two digits, a day of that month
JoinedDateOf(tok, year) ==
  {j \in {[token |-> months[m] \o Pad(d, w), width |-> w, month |-> m, day |-> d,
           year |-> NumVal(year)] :
            m \in {k \in 1..12 : StartsWith(tok, months[k])}, d \in 1..31, w \in 1..2} :
     /\ j.token = tok
     /\ (j.width = 2 \/ j.day < 10)
     /\ j.day <= DaysInMonth(j.month, j.year)}

\* <Mon> <day> in two tokens
IsSpacedDate(toks, year) ==
  /\ Len(toks) >= 2
  /\ \E m \in 1..12 : toks[1] = months[m]
                      /\ IsDigit(toks[2]) /\ Len(toks[2]) <= 2
                      /\ NumVal(toks[2]) \in 1..DaysInMonth(m, NumVal(year))

SpacedDateOf(toks, year) ==
  LET m == CHOOSE k \in 1..12 : toks[1] = months[k]
  IN  [month |-> m, day |-> NumVal(toks[2]), year |-> NumVal(year)]

\* C4 as stated: with a resolved year, a starting line with the month and the
\* day in separate tokens yields one transaction, dated by that month, day and
\* year, with the last two tokens as amount and balance.
C4_Original ==
  (LineProcessed /\ last.year # NoneVal /\ IsSpacedDate(LastTokens, last.year)
     /\ Len(LastParts) >= 4) =>
    /\ last.kind = "built"
    /\ page_transactions = Append(last.page_before, NewTx)
    /\ NewTx.date = FormatDate(SpacedDateOf(LastTokens, last.year), iso)
    /\ LET parts == LastParts
       IN  /\ parts[Len(parts) - 1] \in {NewTx.withdrawal, NewTx.deposit}
           /\ NewTx.balance = Last(parts)

\* C4 amended: with a resolved year, a starting line whose first token is the
\* month abbreviation immediately followed by the day (<Mon><day>
\* <description...> <amount> <balance>, as in "Jan15 GroceryStoreXYZ Deposit
\* 50.00 1200.00"), the day being a day of that month, yields exactly one
\* transaction whose date is that month and day completed with the year, whose
\* amount is the second-to-last and whose balance is the last of the tokens
\* left after the trailing alphabetic token is discarded; a following
\* continuation line is appended to its description.  A starting line with the
\* month and the day in separate tokens yields no transaction.
C4_Amended ==
  /\ (LineProcessed /\ last.year # NoneVal /\ StartsWithMonth(LastLine)
        /\ Len(LastParts) >= 3) =>
       LET parts == LastParts
       IN  \A j \in JoinedDateOf(parts[1], last.year) :
             /\ last.kind = "built"
             /\ page_transactions = Append(last.page_before, NewTx)
             /\ NewTx.date = FormatDate(j, iso)
             /\ parts[Len(parts) - 1] \in {NewTx.withdrawal, NewTx.deposit}
             /\ NewTx.balance = Last(parts)
  /\ (LineProcessed /\ last.year # NoneVal /\ IsSpacedDate(LastTokens, last.year)) =>
       (last.kind = "rejected" /\ page_transactions = last.page_before)
  /\ (last.kind = "continuation") => AppendedTo(last.page_before, page_transactions)

C4_Witness ==
  /\ last.kind = "continuation"
  /\ last.year = W_2024
  /\ lineIdx = 3
  /\ lines[1] = L_DepositMid
  /\ page_transactions[1].date = (IF iso THEN <<"2","0","2","4","-","0","1","-","1","5">>
                                  ELSE <<"J","a","n"," ","1","5",","," ","2","0","2","4">>)
  /\ page_transactions[1].deposit = W_50_00
  /\ page_transactions[1].balance = W_1200_00

\* C5: every record of the transaction list has exactly one of withdrawal and
\* deposit populated, and its balance populated, in every state of a parse.
C5_ExactlyOneAmount ==
  \A i \in 1..Len(DocumentNow) :
    /\ Populated(DocumentNow[i].withdrawal) # Populated(DocumentNow[i].deposit)
    /\ Populated(DocumentNow[i].balance)

C5_Witness ==
  /\ pc = "returned"
  /\ \E i, j \in 1..Len(page_transactions) :
       IsDepositRecord(page_transactions[i]) /\ IsWithdrawalRecord(page_transactions[j])
  /\ \E k \in 1..Len(lines) : lines[k] = L_BadDate

\* the lines of the pages read so far, in order
RECURSIVE LinesOfPages(_, _)
LinesOfPages(ps, n) ==
  IF n = 0 \/ ps = << >> THEN << >> ELSE Head(ps).lines \o LinesOfPages(Tail(ps), n - 1)

PagesRead == IF pc = "line_loop" THEN pageIdx ELSE pageIdx - 1

FirstFoundYear == extract_year(LinesOfPages(pages, PagesRead))

\* the year written in a completed date
YearOfDate(date) ==
  IF iso THEN SubSeq(date, 1, 4) ELSE SubSeq(date, Len(date) - 3, Len(date))

\* C6: the year of the document is the first one found, page after page: once
\* a page has yielded a year the stored year stays that year to the end of the
\* document, and every date completed on a later page carries it, also when
\* that page shows another year.
C6_FirstYearWins ==
  /\ extracted_year = FirstFoundYear
  /\ (last.kind = "built" /\ last.year # NoneVal) =>
       (last.year = FirstFoundYear /\ YearOfDate(NewTx.date) = FirstFoundYear)

C6_Witness ==
  /\ last.kind = "built"
  /\ pageIdx > 1
  /\ extract_year(lines) # NoneVal
  /\ extract_year(lines) # extracted_year
  /\ YearOfDate(NewTx.date) = extracted_year
  /\ extract_year(pages[1].lines) = extracted_year

\* C7: a continuation line never changes the length of the transaction list
\* and changes nothing but the description of its last record; processed
\* while the list is empty it changes nothing.
C7_ContinuationFrame ==
  (LineProcessed /\ ~StartsWithMonth(LastLine)) =>
    /\ Len(page_transactions) = Len(last.page_before)
    /\ \A i \in 1..Len(last.page_before) :
         /\ i < Len(last.page_before) => page_transactions[i] = last.page_before[i]
         /\ page_transactions[i].date = last.page_before[i].date
         /\ page_transactions[i].withdrawal = last.page_before[i].withdrawal
         /\ page_transactions[i].deposit = last.page_before[i].deposit
         /\ page_transactions[i].balance = last.page_before[i].balance
    /\ transactions = last.doc_before
    /\ extracted_year = last.year
    /\ pc = "line_loop"

C7_Witness ==
  /\ last.kind = "continuation"
  /\ Len(last.page_before) >= 2
  /\ NewTx.description # Last(last.page_before).description
  /\ NewTx.balance = Last(last.page_before).balance

MonthSet == {months[m] : m \in 1..Len(months)}

\* the first token is a month abbreviation, alone or followed by the digits
\* of the day
FirstTokenMatchesMonth(toks) ==
  /\ toks # << >>
  /\ Len(toks[1]) >= 3
  /\ SubSeq(toks[1], 1, 3) \in MonthSet
  /\ AllIn(Slice(toks[1], 4, Len(toks[1])), Digits)

\* the first word has a month abbreviation as the prefix of a longer word
FirstWordIsLonger(toks) ==
  /\ toks # << >>
  /\ Len(toks[1]) > 3
  /\ SubSeq(toks[1], 1, 3) \in MonthSet
  /\ toks[1][4] \in Letters

LinePrefixIsMonth == LET line == LastLine IN Len(line) >= 3 /\ SubSeq(line, 1, 3) \in MonthSet

\* C8 as stated: a line is handled as a starting line exactly when its first
\* token is a month abbreviation (with the day), and a first word that only
\* begins with an abbreviation makes the line a continuation.
C8_Original ==
  LineProcessed =>
    /\ StartHandled <=> FirstTokenMatchesMonth(LastTokens)
    /\ FirstWordIsLonger(LastTokens) => last.kind \in {"continuation", "discarded"}

\* C8 amended: a trimmed line is handled as starting a transaction if and only
\* if the line begins with one of the twelve abbreviations Jan..Dec, case
\* sensitively, whatever follows the abbreviation; every other line is a
\* continuation, appended when the page has a transaction and discarded
\* otherwise.  A line whose first word has an abbreviation as the prefix of a
\* longer word ("Mayfair") is a starting line: with a resolved year it builds
\* no transaction.
C8_Amended ==
  LineProcessed =>
    /\ StartHandled <=> LinePrefixIsMonth
    /\ ~LinePrefixIsMonth =>
         last.kind = (IF last.page_before # << >> THEN "continuation" ELSE "discarded")
    /\ (last.year # NoneVal /\ FirstWordIsLonger(LastTokens)) =>
         (last.kind \in {"rejected", "index_error"} /\ page_transactions = last.page_before)

C8_Witness ==
  /\ last.kind = "rejected"
  /\ last.year # NoneVal
  /\ FirstWordIsLonger(LastTokens)
  /\ last.page_before # << >>

PdfFiles == {i \in 1..Len(directory) : directory[i].pdf}

FailingFiles ==
  {i \in PdfFiles : DocFold(directory[i].pages, NoneVal, iso, << >>).raised}

\* the rows of the documents of the directory that do not fail, in order, as
\* the driver at hand writes them
RECURSIVE RowsOfSoundDocuments(_)
RowsOfSoundDocuments(files) ==
  IF files = << >> THEN {<< >>}
  ELSE IF ~Head(files).pdf THEN RowsOfSoundDocuments(Tail(files))
  ELSE {o.rows \o rest : o \in DocResults(Head(files).pages, iso),
                         rest \in RowsOfSoundDocuments(Tail(files))}

\* C9: in every directory driver a failure in one document is caught and
\* reported and the driver goes on with the next document: no exception
\* leaves the driver, and what it returns holds the rows of every document
\* that did not fail.
C9_Original ==
  entry = "dir" =>
    /\ pc # "raised"
    /\ pc = "returned" => all_transactions \in RowsOfSoundDocuments(directory)

\* DataProcessor.process_directory alone does so: it catches the failure of a
\* document, reports it and goes on, and returns the rows of every document
\* processed without failure, in order.  process_all_pdfs_in_directory of
\* scripts/extract_transactions.py has no handler: it returns only when no
\* document fails, and is left by the exception of the first one that does.
C9_CoreDriverCatches ==
  entry = "dir" =>
    /\ variant = "core" => pc # "raised"
    /\ (variant = "core" /\ pc = "returned") =>
         /\ all_transactions \in DirectoryResults(directory)
         /\ file_count + reported = Cardinality(PdfFiles)
         /\ reported >= Cardinality(FailingFiles)
    /\ (variant = "script" /\ pc = "returned") => FailingFiles = {}
    /\ (variant = "script" /\ pc = "raised") => fileIdx \in FailingFiles

C9_Witness ==
  /\ entry = "dir" /\ variant = "core" /\ pc = "returned"
  /\ Len(directory) = 2
  /\ 1 \in FailingFiles
  /\ reported = 1 /\ file_count = 1
  /\ all_transactions # << >>

RECURSIVE SelectLines(_, _)
SelectLines(ls, year) ==
  IF ls = << >> THEN << >>
  ELSE (IF StartsWithMonth(Strip(Head(ls)))
           /\ TrimTrailingAlpha(Split(Strip(Head(ls)))) # << >>
           /\ ~ParseDate(TrimTrailingAlpha(Split(Strip(Head(ls))))[1] \o year).ok
        THEN << >> ELSE <<Head(ls)>>) \o SelectLines(Tail(ls), year)

\* the date token of the line, completed with the year, is no calendar date
HasBadDate ==
  /\ StartsWithMonth(LastLine)
  /\ LET parts == LastParts
     IN  parts # << >> /\ ~ParseDate(parts[1] \o last.year).ok

\* C10: with a resolved year, a starting line whose date token with the year
\* is no calendar date builds no transaction and leaves the list unchanged,
\* raises nothing, and the lines after it are processed as if it were not
\* there: the page returns what it returns without such lines.
C10_BadDateDropped ==
  /\ (LineProcessed /\ last.year # NoneVal /\ HasBadDate) =>
       /\ last.kind = "rejected"
       /\ page_transactions = last.page_before
       /\ pc = "line_loop"
       /\ lineIdx >= 2 /\ lines[lineIdx - 1] = last.raw
  /\ (entry = "page" /\ pc = "returned" /\ extracted_year # NoneVal) =>
       page_transactions =
         PageFold(SelectLines(lines, extracted_year), extracted_year, iso, << >>).txs

C10_Witness ==
  /\ entry = "page" /\ pc = "returned"
  /\ extracted_year = W_2024
  /\ lines = <<L_Withdrawal, L_BadDate, L_Note>>
  /\ Len(page_transactions) = 1
  /\ page_transactions[1].description =
       W_Store \o <<" ">> \o W_additional \o <<" ">> \o W_note \o <<" ">> \o W_text

\* a 4-digit year of 2000..2099
IsYearText(t) ==
  Len(t) = 4 /\ t[1] = "2" /\ t[2] = "0" /\ t[3] \in Digits /\ t[4] \in Digits

FirstYearIn(ts) ==
  IF \E i \in 1..Len(ts) : IsYearText(ts[i])
  THEN ts[CHOOSE i \in 1..Len(ts) : IsYearText(ts[i]) /\ \A j \in 1..(i - 1) : ~IsYearText(ts[j])]
  ELSE NoneVal

\* the maximal runs of word characters (letters, digits, underscore) of a line
RECURSIVE WordRunsFrom(_, _, _)
WordRunsFrom(s, cur, acc) ==
  IF s = << >> THEN (IF cur = << >> THEN acc ELSE Append(acc, cur))
  ELSE IF Head(s) \in WordChars
       THEN WordRunsFrom(Tail(s), Append(cur, Head(s)), acc)
       ELSE WordRunsFrom(Tail(s), << >>, IF cur = << >> THEN acc ELSE Append(acc, cur))

WordRuns(line) == WordRunsFrom(line, << >>, << >>)

RECURSIVE TokensOfLines(_)
TokensOfLines(ls) == IF ls = << >> THEN << >> ELSE Split(Head(ls)) \o TokensOfLines(Tail(ls))

RECURSIVE WordRunsOfLines(_)
WordRunsOfLines(ls) == IF ls = << >> THEN << >> ELSE WordRuns(Head(ls)) \o WordRunsOfLines(Tail(ls))

YearReturned == entry = "year" /\ pc = "returned"

\* C11 as stated: the resolver returns the first whitespace-delimited token
\* that is a year of 2000..2099, and not-found when no token is one: the
\* digits of a longer token ("2024.50") are no year.
C11_Original == YearReturned => extracted_year = FirstYearIn(TokensOfLines(lines))

\* C11 amended: the resolver scans the lines in order and returns the first
\* maximal run of word characters (letters, digits, underscore) that is a
\* year of 2000..2099, leftmost in the first line that has one, and
\* not-found when no line has such a run; the run need not be a whole
\* whitespace-delimited token ("2024.50" and "2025-01-31" give their year),
\* and it stops at the line of the match.
C11_Amended ==
  YearReturned =>
    /\ extracted_year = FirstYearIn(WordRunsOfLines(lines))
    /\ extracted_year # NoneVal =>
         /\ lineIdx <= Len(lines)
         /\ extracted_year = FirstYearIn(WordRuns(lines[lineIdx]))
         /\ \A k \in 1..(lineIdx - 1) : FirstYearIn(WordRuns(lines[k])) = NoneVal
    /\ extracted_year = NoneVal => lineIdx = Len(lines) + 1

C11_Witness ==
  /\ YearReturned
  /\ Len(lines) = 3 /\ lineIdx = 2
  /\ lines[1] = L_Account /\ lines[2] = L_Amount2024 /\ lines[3] = L_Year2024
  /\ extracted_year = W_2024
  /\ FirstYearIn(Split(lines[2])) = NoneVal

\* digits, optionally followed by a decimal point and one or two digits
IsNumericToken(t) ==
  \E n \in 1..Len(t) :
    /\ \A i \in 1..n : t[i] \in Digits
    /\ \/ n = Len(t)
       \/ /\ t[n + 1] = "."
          /\ Len(t) \in {n + 2, n + 3}
          /\ \A i \in (n + 2)..Len(t) : t[i] \in Digits

\* the tokens strictly between the date token and the amount token
InteriorTokens(parts) == [k \in 1..(IF Len(parts) > 3 THEN Len(parts) - 3 ELSE 0) |-> parts[k + 1]]

RECURSIVE WithoutNumeric(_)
WithoutNumeric(ts) ==
  IF ts = << >> THEN << >>
  ELSE (IF IsNumericToken(Head(ts)) THEN << >> ELSE <<Head(ts)>>) \o WithoutNumeric(Tail(ts))

\* the letters, digits and apostrophes of a text, in order
RECURSIVE WordCharsOf(_)
WordCharsOf(t) ==
  IF t = << >> THEN << >>
  ELSE (IF Head(t) \in NinjaChars THEN <<Head(t)>> ELSE << >>) \o WordCharsOf(Tail(t))

RECURSIVE Concat(_)
Concat(ts) == IF ts = << >> THEN << >> ELSE Head(ts) \o Concat(Tail(ts))

KeptTokens == WithoutNumeric(InteriorTokens(LastParts))

\* C12: the description of a built transaction is made of exactly the tokens
\* strictly between the date token and the amount token (tokens[1:-2] once a
\* trailing alphabetic token is discarded), in their order, less every token
\* that is digits optionally followed by a decimal point and one or two
\* digits, and less no other token: it is the segmentation of those tokens
\* joined by single spaces, and its letters and digits are theirs, in order.
C12_DescriptionTokens ==
  last.kind = "built" =>
    /\ NewTx.description = split_concatenated_text(Join(KeptTokens, <<" ">>))
    /\ WordCharsOf(NewTx.description) = WordCharsOf(Concat(KeptTokens))

C12_Witness ==
  /\ last.kind = "built"
  /\ InteriorTokens(LastParts) = <<W_Payment, W_123, W_to, W_45_00, W_Acme>>
  /\ KeptTokens = <<W_Payment, W_to, W_Acme>>
  /\ NewTx.description = Join(<<W_Payment, W_to, W_Acme>>, <<" ">>)
  /\ Len(last.page_before) = 1
  /\ last.page_before[1].description = <<"1","2"," ","3","4","5"," ","5","0"," ","5">>

\* fewer tokens than a date, an amount and a balance
TooShort == StartsWithMonth(LastLine) /\ Len(LastParts) < 3

\* C13: a starting line too short to hold date, amount and balance never
\* raises out of the page parser: no transaction is created, the list is
\* unchanged and the parser goes on with the next line.
C13_Original ==
  (LineProcessed /\ TooShort) =>
    /\ pc # "raised"
    /\ last.kind # "index_error"
    /\ page_transactions = last.page_before
    /\ lineIdx >= 2 /\ lines[lineIdx - 1] = last.raw

====
